---- MODULE Spec2Model ----
(***************************************************************************)
(* Model of the MultiTankcard client (src/MTC.py): the login handshake of  *)
(* MTCClient.login and the duplicate check / claim write / date-shift      *)
(* retry loop of MTCClient.submit_reimbursement.  The program is           *)
(* single-threaded and blocking; each action is one network request        *)
(* together with the code that handles its response, up to the next        *)
(* request or the return.  The provider (server) is the environment: its   *)
(* responses are chosen nondeterministically, and its transaction ledger   *)
(* records the claims it accepted.                                         *)
(***************************************************************************)
EXTENDS Integers, Sequences, FiniteSets, TLC

VARIABLES
    csrf_token,              \* self.csrf_token
    session_headers,         \* default X-CSRFToken header of self.session
    cookies,                 \* self.session.cookies (osVisit, osVisitor, nr2Users)
    api_versions,            \* self._api_versions
    module_version,          \* self.module_version
    lookback_period_months,  \* self.lookback_period_months
    MODE,                    \* os.getenv("MODE")
    now_utc,                 \* datetime.now(timezone.utc)
    pc,                      \* position in the program
    ctx,                     \* which call site login() returns to
    claim_data,              \* the caller's claim dictionary
    max_attempts,            \* parameter of submit_reimbursement
    attempt,                 \* local of submit_reimbursement
    current_submission_dt,   \* local of submit_reimbursement
    status,                  \* transactions_response.status_code class
    result,                  \* the (success, message) pair returned
    ledger,                  \* provider: transactions on the account
    serverAuth,              \* provider: the session's credentials were accepted
    versionToken,            \* module_version local of _perform_initial_calls
    log,                     \* requests issued since the current call began
    loggedIn,                \* the most recent login() completed and returned True
    accepted,                \* per session id: claim writes the provider accepted
    shifts,                  \* date shifts made by the current call
    calls,                   \* submit_reimbursement calls made so far
    resolved,                \* endpoint keys resolved since the process began
    sessions,                \* main: the sessions the batch loop has not reached yet
    endpoint_arg             \* argument of a direct _get_api_version call

vars == <<csrf_token, session_headers, cookies, api_versions, module_version,
          lookback_period_months, MODE, now_utc, pc, ctx, claim_data,
          max_attempts, attempt, current_submission_dt, status, result,
          ledger, serverAuth, versionToken, log, loggedIn, accepted, shifts, calls,
          resolved, sessions, endpoint_arg>>

sessionVars == <<csrf_token, session_headers, cookies, api_versions, module_version>>
envVars == <<lookback_period_months, MODE, now_utc>>
callerVars == <<sessions, endpoint_arg>>
callVars == <<claim_data, max_attempts, attempt, current_submission_dt, shifts, calls>>

-----------------------------------------------------------------------------
(* Bounds of the model *)

MaxCalls == 2          \* submit_reimbursement calls per behaviour
MaxAttemptsArg == 3    \* largest max_attempts argument tried
MaxLookback == 14      \* largest LOOKBACK_PERIOD tried, in months

-----------------------------------------------------------------------------
(* Values *)

None == "None"

\* self.csrf_token as set by __init__
InitialCsrfToken == "T6C+9iB49TLra4jEsMeSckDMNhQ="

Endpoints == {"appstoreurls", "login", "transactions", "submit"}

\* API_PATTERNS: the script each endpoint's version is scraped from
API_PATTERNS ==
    [e \in Endpoints |->
        CASE e = "appstoreurls" -> "OnTheMoveMultiTankcard_CW.controller.js"
          [] e = "login"        -> "OtmAcc_Account.controller.js"
          [] e = "transactions" -> "OtmTrx_Transactions.Screen.Overview.mvc.js"
          [] e = "submit"       -> "OtmTrx_Transactions.Claim.ClaimForm.mvc.js"]

-----------------------------------------------------------------------------
(* Calendar arithmetic of datetime, on proleptic Gregorian ordinals *)

IsLeap(y) == (y % 4 = 0) /\ ((y % 100 # 0) \/ (y % 400 = 0))

DaysInMonth(y, m) ==
    CASE m \in {1, 3, 5, 7, 8, 10, 12} -> 31
      [] m \in {4, 6, 9, 11} -> 30
      [] OTHER -> IF IsLeap(y) THEN 29 ELSE 28

RECURSIVE DaysBeforeMonth(_, _)
DaysBeforeMonth(y, m) ==
    IF m <= 1 THEN 0 ELSE DaysBeforeMonth(y, m - 1) + DaysInMonth(y, m - 1)

DaysBeforeYear(y) ==
    (y - 1) * 365 + ((y - 1) \div 4) - ((y - 1) \div 100) + ((y - 1) \div 400)

\* date.toordinal()
Ordinal(y, m, d) == DaysBeforeYear(y) + DaysBeforeMonth(y, m) + d

ValidDate(y, m, d) == m \in 1..12 /\ d >= 1 /\ d <= DaysInMonth(y, m)

\* date.fromordinal(), for the years the model's dates fall in
FromOrdinal(n) ==
    LET y == CHOOSE yy \in 2022..2026 :
                 DaysBeforeYear(yy) < n /\ n <= DaysBeforeYear(yy + 1)
        r == n - DaysBeforeYear(y)
        m == CHOOSE mm \in 1..12 :
                 DaysBeforeMonth(y, mm) < r
                 /\ r <= DaysBeforeMonth(y, mm) + DaysInMonth(y, mm)
    IN  [y |-> y, m |-> m, d |-> r - DaysBeforeMonth(y, m)]

-----------------------------------------------------------------------------
(* Datetimes.  An ISO-8601 text is the record of its fields                *)
(* [y, m, d, min, us, aware, off]: minute of the day, microseconds,        *)
(* whether it carries a UTC offset, and that offset in minutes.  A         *)
(* datetime object is [day, min, us, aware, off] with day the ordinal of   *)
(* its local date.                                                         *)

\* A faulty variant of the parse: no text is refused
ValidIso_AnyText(s) == TRUE

\* datetime.fromisoformat() raises ValueError unless the fields form a date
ValidIso(s) ==
    ValidDate(s.y, s.m, s.d) /\ s.min \in 0..1439 /\ s.us \in 0..999999

\* datetime.fromisoformat()
fromisoformat(s) ==
    [day |-> Ordinal(s.y, s.m, s.d), min |-> s.min, us |-> s.us,
     aware |-> s.aware, off |-> s.off]

\* datetime.isoformat()
isoformat(dt) ==
    LET c == FromOrdinal(dt.day)
    IN  [y |-> c.y, m |-> c.m, d |-> c.d, min |-> dt.min, us |-> dt.us,
         aware |-> dt.aware, off |-> dt.off]

\* The UTC offset of the machine's local zone at a local date (Europe/Amsterdam,
\* the zone test_mtc_client builds its claim in): summer time in 2024 ran from
\* 31 March to 27 October.
SystemUtcOffset(day) ==
    IF day >= Ordinal(2024, 3, 31) /\ day < Ordinal(2024, 10, 27) THEN 120 ELSE 60

\* dt.astimezone(timezone.utc): a naive datetime is taken as local time
astimezone_utc(dt) ==
    LET off == IF dt.aware THEN dt.off ELSE SystemUtcOffset(dt.day)
        t == dt.day * 1440 + dt.min - off
    IN  [day |-> t \div 1440, min |-> t % 1440, us |-> dt.us, aware |-> TRUE, off |-> 0]

\* dt.strftime('%Y-%m-%dT%H:%M:%S.%f')[:-3] + 'Z': milliseconds, truncated
FormatMillisZ(dt) ==
    LET c == FromOrdinal(dt.day)
    IN  [y |-> c.y, m |-> c.m, d |-> c.d, min |-> dt.min, ms |-> dt.us \div 1000, z |-> "Z"]

\* A faulty variant of the date shift: the datetime is left as it was
MinusOneDay_Unshifted(dt) == dt

\* current_submission_dt -= timedelta(days=1)
MinusOneDay(dt) == [dt EXCEPT !.day = dt.day - 1]

\* DateTransaction of the claim payload
date_transaction_str(dt) == FormatMillisZ(astimezone_utc(dt))

-----------------------------------------------------------------------------
(* The lookback window of the duplicate check *)

\* while start_month <= 0: start_month += 12; start_year -= 1
RECURSIVE NormalizeMonth(_, _)
NormalizeMonth(y, m) ==
    IF m <= 0 THEN NormalizeMonth(y - 1, m + 12) ELSE [y |-> y, m |-> m]

\* A faulty variant of the fallback: the first day of the calculated month
start_datetime_filter_obj_FirstDay(now, months) ==
    LET s == NormalizeMonth(now.y, now.m - months)
    IN  IF ValidDate(s.y, s.m, now.d)
        THEN Ordinal(s.y, s.m, now.d)
        ELSE Ordinal(s.y, s.m, 1)

\* start_datetime_filter_obj, as the ordinal of its date (its time is 00:00:00)
start_datetime_filter_obj(now, months) ==
    LET s == NormalizeMonth(now.y, now.m - months)
        temp_month == IF s.m + 1 > 12 THEN 1 ELSE s.m + 1
        temp_year == IF s.m + 1 > 12 THEN s.y + 1 ELSE s.y
    IN  IF ValidDate(s.y, s.m, now.d)
        THEN Ordinal(s.y, s.m, now.d)
        ELSE Ordinal(temp_year, temp_month, 1) - 1

\* The provider's answer to DataActionGetTransactions: the transactions of the
\* account whose date lies in the window the request names
\* (StartDateTimeCurrentFilter .. EndDateTimeCurrentFilter).
TransactionsInWindow(led, now, months) ==
    {t \in led :
        /\ Ordinal(t.date.y, t.date.m, t.date.d) >= start_datetime_filter_obj(now, months)
        /\ Ordinal(t.date.y, t.date.m, t.date.d) <= Ordinal(now.y, now.m, now.d)}

\* The scan keyed on the wrong field of the claim
IsDuplicate_ByLocation(transactions, claim) ==
    \E t \in transactions : t.ClaimNote = claim.location

\* The scan left out in dry-run mode, as if the mode were tested first
IsDuplicate_SkippedWhenDry(transactions, claim) ==
    MODE # "DRY" /\ \E t \in transactions : t.ClaimNote = claim.chargeSessionId

\* The scan satisfied by any entry of the list, whatever its note
IsDuplicate_AnyNote(transactions, claim) == transactions # {}

\* for transaction in transactions: if transaction.get("ClaimNote") == claim_data["chargeSessionId"]
IsDuplicate(transactions, claim) ==
    \E t \in transactions : t.ClaimNote = claim.chargeSessionId

-----------------------------------------------------------------------------
(* Cookies and the anti-forgery token *)

\* Values the provider gives the nr2Users cookie
Nr2Bootstrap == "crf%3dT6C%2b9iB49TLra4jEsMeSckDMNhQ%3d%3buid%3d0%3bunm%3d"
Nr2Rotated == "crf%3dQOjSV0ck2K5My3x%2f%2byrSZeNUfNA%3d%3buid%3d7%3bunm%3duser"
Nr2RotatedLast == "uid%3d7%3bcrf%3dRt9%2bw%3d"
Nr2EmptyCrf == "crf%3d%3buid%3d7"
Nr2NoCrf == "uid%3d7%3bunm%3duser"

NoMatch == "<no match>"

\* re.search(r"crf%3d(.*?)(?:%3b|$)", nr2_users_cookie).group(1)
CrfGroup(cookie) ==
    CASE cookie = Nr2Bootstrap   -> "T6C%2b9iB49TLra4jEsMeSckDMNhQ%3d"
      [] cookie = Nr2Rotated     -> "QOjSV0ck2K5My3x%2f%2byrSZeNUfNA%3d"
      [] cookie = Nr2RotatedLast -> "Rt9%2bw%3d"
      [] cookie = Nr2EmptyCrf    -> ""
      [] OTHER                   -> NoMatch

\* A faulty variant of the decoding: the escapes are left in place
unquote_Identity(encoded) == encoded

\* urllib.parse.unquote
unquote(encoded) ==
    CASE encoded = "T6C%2b9iB49TLra4jEsMeSckDMNhQ%3d"   -> "T6C+9iB49TLra4jEsMeSckDMNhQ="
      [] encoded = "QOjSV0ck2K5My3x%2f%2byrSZeNUfNA%3d" -> "QOjSV0ck2K5My3x/+yrSZeNUfNA="
      [] encoded = "Rt9%2bw%3d"                         -> "Rt9+w="
      [] OTHER                                          -> encoded

-----------------------------------------------------------------------------
(* Error messages: a text is the sequence of its fragments *)

DailyLimitPhrase == "maximaal 3 transacties op een dag"
DailyLimitMessage == <<"U kunt ", DailyLimitPhrase, " indienen.">>
OtherMessage == <<"IBAN is ongeldig.">>
UnknownSubmissionError == <<"Unknown error during claim submission">>

Contains(text, phrase) == \E i \in 1..Len(text) : text[i] = phrase

\* A faulty variant of the phrase test: every non-empty message counts
is_daily_limit_error_AnyMessage(error_message) == Len(error_message) > 0

\* MTCClient._is_daily_limit_error
is_daily_limit_error(error_message) ==
    \E phrase \in {DailyLimitPhrase} : Contains(error_message, phrase)

-----------------------------------------------------------------------------
(* Inputs and responses *)

Iso(y, m, d, min, us, aware, off) ==
    [y |-> y, m |-> m, d |-> d, min |-> min, us |-> us, aware |-> aware, off |-> off]

\* datetime_type is the Python type of the record's "datetime" value
Claim(id, location, datetime) ==
    [datetime |-> datetime, datetime_type |-> "str",
     location |-> location, chargeSessionId |-> id,
     kwh_charged |-> "12.3", total_price |-> "5.0", currency |-> "EUR",
     invoice_jpeg_base64 |-> "/9j/4AAQSkZJRg=="]

\* The charging-session records submitted
ClaimRecords ==
    { Claim("abc123", "Zwolle", Iso(2024, 8, 30, 540, 0, TRUE, 60)),
      Claim("mar001", "Breda", Iso(2024, 3, 1, 30, 123456, TRUE, 60)),
      Claim("dst001", "Venlo", Iso(2024, 4, 1, 30, 999999, FALSE, 0)),
      Claim("old001", "Assen", Iso(2024, 1, 10, 1125, 0, TRUE, 60)),
      Claim("bad001", "Goes", Iso(2024, 2, 30, 600, 0, TRUE, 60)),
      \* a session whose chargeStartDateTime came back null
      [Claim("nul001", "Emmen", Iso(0, 0, 0, 0, 0, FALSE, 0))
          EXCEPT !.datetime_type = "NoneType"] }

SessionIds == {c.chargeSessionId : c \in ClaimRecords}

NoDatetime == [day |-> 0, min |-> 0, us |-> 0, aware |-> FALSE, off |-> 0]
NoDate == [y |-> 0, m |-> 0, d |-> 0, min |-> 0, ms |-> 0, z |-> ""]

\* The clocks and configurations a run starts under
NowChoices == { [y |-> 2024, m |-> 8, d |-> 31, min |-> 720] }
ModeChoices == {"DRY", "PROD"}

\* The date of a transaction filed now
Today == [y |-> 2024, m |-> 8, d |-> 31, min |-> 0, ms |-> 0, z |-> "Z"]

\* The transactions on the account when the program starts: a fuel transaction
\* without a note and a claim with a similar note
BackgroundTransactions ==
    { [ClaimNote |-> None, date |-> Today], [ClaimNote |-> "ABC123", date |-> Today] }

\* Answers to GET moduleversioninfo
MetaResponses ==
    { [kind |-> "exception", osVisit |-> FALSE, osVisitor |-> FALSE, versionToken |-> ""],
      [kind |-> "ok", osVisit |-> TRUE, osVisitor |-> TRUE, versionToken |-> ""] }
    \cup [kind : {"ok"}, osVisit : BOOLEAN, osVisitor : BOOLEAN, versionToken : {"mv1"}]

\* Answers to GET scripts/<js_file>: an HTTP failure, a body the pattern does not
\* match, or a body carrying a version
ScriptResponses == {"http_error", "no_match", "nyNOPcJwi_q2x47URPs+uA"}

\* Answers to the priming POSTs
PrimingResponses == [kind : {"ok"}, nr2Users : {None, Nr2Bootstrap}]
                    \cup {[kind |-> "http_error", nr2Users |-> None]}

\* Answers to ActionAppLogin
LoginResponses ==
    [kind : {"http_error", "exception_body", "rejected"}, nr2Users : {None}]
    \cup [kind : {"ok"},
          nr2Users : {None, Nr2Rotated, Nr2EmptyCrf, Nr2NoCrf}]

\* Answers to DataActionGetTransactions
TransactionsResponses == {"exception", "401", "403", "500", "exception_body", "ok"}

\* Answers to ActionClaim_Create
ClaimBody(hasError, hasException, text, Success, hasErrorMessage, ErrorMessage) ==
    [kind |-> "ok", hasError |-> hasError, hasException |-> hasException, text |-> text,
     Success |-> Success, hasErrorMessage |-> hasErrorMessage, ErrorMessage |-> ErrorMessage]

ClaimResponses ==
    { [ClaimBody(FALSE, FALSE, <<>>, FALSE, FALSE, <<>>) EXCEPT !.kind = "exception"],
      [ClaimBody(FALSE, FALSE, <<>>, FALSE, FALSE, <<>>) EXCEPT !.kind = "http_error"],
      ClaimBody(FALSE, FALSE, <<>>, TRUE, FALSE, <<>>),
      ClaimBody(FALSE, FALSE, <<>>, FALSE, TRUE, DailyLimitMessage),
      ClaimBody(FALSE, FALSE, <<>>, FALSE, TRUE, OtherMessage),
      ClaimBody(FALSE, FALSE, <<>>, FALSE, FALSE, <<>>),
      ClaimBody(FALSE, TRUE, DailyLimitMessage, FALSE, FALSE, <<>>),
      ClaimBody(TRUE, FALSE, OtherMessage, FALSE, FALSE, <<>>) }

\* The (success, message) pair: the message is its kind, the values it embeds,
\* the number it embeds and the date it embeds
Res(ok, kind, parts, n, date) ==
    [ok |-> ok, kind |-> kind, parts |-> parts, n |-> n, date |-> date]

NoIso == Iso(0, 0, 0, 0, 0, FALSE, 0)

NoResult == Res(FALSE, "", <<>>, 0, NoIso)

Req(op, att, csrf, res, date, authed) ==
    [op |-> op, key |-> None, att |-> att, csrf |-> csrf, res |-> res, date |-> date,
     authed |-> authed]

\* A GET of the script an endpoint's version is scraped from
ReqJs(endpoint, att, res, authed) ==
    [Req("GET_js", att, None, res, NoDate, authed) EXCEPT !.key = endpoint]

-----------------------------------------------------------------------------
(* Construction: MTCClient.__init__ up to its call of login() *)

InitOf(periods, clocks, batches) ==
    /\ csrf_token = InitialCsrfToken
    /\ session_headers = None
    /\ cookies = [osVisit |-> FALSE, osVisitor |-> FALSE, nr2Users |-> None]
    /\ api_versions = [e \in Endpoints |-> None]
    /\ module_version = ""
    /\ lookback_period_months \in periods
    /\ MODE \in ModeChoices
    /\ now_utc \in clocks
    /\ pc = "L_meta"
    /\ ctx = "init"
    /\ claim_data \in ClaimRecords
    /\ max_attempts \in 0..MaxAttemptsArg
    /\ attempt = 0
    /\ current_submission_dt = NoDatetime
    /\ status = ""
    /\ result = NoResult
    /\ ledger = BackgroundTransactions
    /\ serverAuth = FALSE
    /\ versionToken = ""
    /\ log = <<>>
    /\ loggedIn = FALSE
    /\ accepted = [i \in SessionIds |-> 0]
    /\ shifts = 0
    /\ calls = 0
    /\ resolved = {}
    /\ sessions \in batches
    /\ endpoint_arg = None

\* LOOKBACK_PERIOD unset: int(os.getenv("LOOKBACK_PERIOD", "6"))
DefaultLookbackPeriod == 6

\* A client constructed for a caller that submits one claim at a time
Init == InitOf({DefaultLookbackPeriod}, NowChoices, {<<>>})

-----------------------------------------------------------------------------
(* Returns *)

\* return (ok, message) from submit_reimbursement
Return(r) ==
    /\ pc' = "done"
    /\ result' = r

\* A faulty variant of the fetch error path: the loop goes round again
AfterFetchError_Retry == "S_check"

\* Where a failed transactions fetch leaves the call: the `return (False, ...)`
\* that ends the `if not transactions_response.ok` block
AfterFetchError == "done"

\* return (False, "Failed to fetch transactions: HTTP <status>")
FetchFailed(code) ==
    /\ pc' = AfterFetchError
    /\ result' = IF AfterFetchError = "done"
                 THEN Res(FALSE, "Failed to fetch transactions: HTTP", <<code>>, 0, NoIso)
                 ELSE result

\* login() returns ok to the call site it was entered from
LoginReturns(ok) ==
    /\ loggedIn' = ok
    /\ CASE ctx = "init" -> pc' = "idle" /\ result' = result
         [] ctx = "mtc"  -> pc' = "new" /\ result' = result
         [] ctx = "pre"  ->
                IF ok THEN pc' = "S_rv_tx" /\ result' = result
                ELSE Return(Res(FALSE, "Authentication required and re-login failed",
                                <<>>, 0, NoIso))
         [] ctx = "auth" ->
                IF ok THEN FetchFailed(status)
                ELSE Return(Res(FALSE, "Re-login failed after transaction fetch error.",
                                <<>>, 0, NoIso))

InLogin == pc \in {"L_meta", "L_rv_app", "L_app", "L_rv_site", "L_site", "L_rv_login", "L_login"}

\* A faulty variant of the handlers: the exception leaves the function
Raise_Uncaught(text) ==
    /\ pc' = "raised"
    /\ UNCHANGED <<result, loggedIn>>

\* An exception raised at the current position: login() turns it into False,
\* submit_reimbursement into (False, str(e))
Raise(text) ==
    IF InLogin THEN LoginReturns(FALSE)
    ELSE IF pc = "D_rv"
    THEN \* nothing between _get_api_version and its caller catches it
         /\ pc' = "raised"
         /\ UNCHANGED <<result, loggedIn>>
    ELSE /\ Return(Res(FALSE, "exception", <<text>>, 0, NoIso))
         /\ loggedIn' = loggedIn

-----------------------------------------------------------------------------
(* MTCClient._get_api_version at the places it is called from *)

\* The endpoint resolved at a position, and the request that follows it
ResolveAt ==
    [p \in {"L_rv_app", "L_rv_site", "L_rv_login", "S_rv_tx", "S_rv_submit"} |->
        CASE p = "L_rv_app"    -> [endpoint |-> "appstoreurls", next |-> "L_app"]
          [] p = "L_rv_site"   -> [endpoint |-> "login", next |-> "L_site"]
          [] p = "L_rv_login"  -> [endpoint |-> "login", next |-> "L_login"]
          [] p = "S_rv_tx"     -> [endpoint |-> "transactions", next |-> "S_tx"]
          [] p = "S_rv_submit" -> [endpoint |-> "submit", next |-> "S_claim"]]

\* A faulty variant of the cache test: the cache is never consulted
CacheHit_Never(endpoint) == FALSE

\* if endpoint in self._api_versions
CacheHit(endpoint) == endpoint \in DOMAIN api_versions /\ api_versions[endpoint] # None

\* The keys _get_api_version is called with: those of API_PATTERNS and one
\* that is not in the table
EndpointKeys == Endpoints \cup {"logout"}

\* A faulty variant of the table lookup: every key is taken to be in the table
KnownEndpoint_Any(endpoint) == TRUE

\* pattern, js_file = API_PATTERNS[endpoint] raises KeyError for other keys
KnownEndpoint(endpoint) == endpoint \in DOMAIN API_PATTERNS

\* The endpoint argument of the _get_api_version call at the current position,
\* and where the call returns to
EndpointAt == IF pc = "D_rv" THEN endpoint_arg ELSE ResolveAt[pc].endpoint
ReturnAt == IF pc = "D_rv" THEN "idle" ELSE ResolveAt[pc].next

\* A faulty variant of the pattern test: whatever was fetched counts as a match
PatternMatches_Always(body) == TRUE

\* match = re.search(pattern, response.text); `if not match` raises
PatternMatches(body) == body # "no_match"

\* if endpoint in self._api_versions: return self._api_versions[endpoint]
GetApiVersionCached ==
    /\ pc \in DOMAIN ResolveAt \cup {"D_rv"}
    /\ CacheHit(EndpointAt)
    /\ pc' = ReturnAt
    /\ UNCHANGED <<sessionVars, envVars, callerVars, resolved, callVars, ctx, status, result,
                   ledger, serverAuth, versionToken, log, loggedIn, accepted>>

\* The script is fetched and the version scraped from it with the endpoint's pattern
GetApiVersionFetch ==
    /\ pc \in DOMAIN ResolveAt \cup {"D_rv"}
    /\ ~CacheHit(EndpointAt)
    /\ IF ~KnownEndpoint(EndpointAt)
       THEN /\ Raise("KeyError")
            /\ UNCHANGED <<api_versions, resolved, log>>
       ELSE \E r \in ScriptResponses :
          /\ log' = Append(log, ReqJs(EndpointAt, attempt, r, loggedIn))
          /\ IF r = "http_error"
             THEN /\ Raise("Could not fetch API version source")
                  /\ UNCHANGED <<api_versions, resolved>>
             ELSE IF ~PatternMatches(r)
             THEN /\ Raise("Could not find API version")
                  /\ UNCHANGED <<api_versions, resolved>>
             ELSE /\ api_versions' = [api_versions EXCEPT ![EndpointAt] = r]
                  /\ resolved' = resolved \cup {EndpointAt}
                  /\ pc' = ReturnAt
                  /\ UNCHANGED <<result, loggedIn>>
    /\ UNCHANGED <<csrf_token, session_headers, cookies, module_version, envVars,
                   callerVars, callVars, ctx, status, ledger, serverAuth, versionToken,
                   accepted>>

-----------------------------------------------------------------------------
(* MTCClient.login and MTCClient._perform_initial_calls *)

\* A faulty variant of the checks: the version token is not looked at
SessionEstablished_CookiesOnly(jar, token) == jar.osVisit /\ jar.osVisitor

\* Neither `if not self.visit_id or not self.visitor_id` nor
\* `if not module_version` raises
SessionEstablished(jar, token) == jar.osVisit /\ jar.osVisitor /\ token # ""

\* GET moduleversioninfo: the session cookies and the module version token
GetModuleVersionInfo ==
    /\ pc = "L_meta"
    /\ \E r \in MetaResponses :
          LET jar == [cookies EXCEPT !.osVisit = @ \/ r.osVisit,
                                     !.osVisitor = @ \/ r.osVisitor]
              \* what the log keeps of the answer
              answer == CASE r.kind = "exception" -> "exception"
                          [] ~jar.osVisit \/ ~jar.osVisitor -> "no_cookies"
                          [] r.versionToken = "" -> "no_versionToken"
                          [] OTHER -> "ok"
          IN  /\ log' = Append(log, Req("GET_meta", attempt, None, answer, NoDate, FALSE))
              /\ IF r.kind = "exception"
                 THEN /\ LoginReturns(FALSE)
                      /\ UNCHANGED <<cookies, versionToken>>
                 ELSE /\ cookies' = jar
                      /\ IF ~SessionEstablished(jar, r.versionToken)
                         THEN /\ LoginReturns(FALSE)
                              /\ UNCHANGED versionToken
                         ELSE /\ versionToken' = r.versionToken
                              /\ pc' = "L_rv_app"
                              /\ loggedIn' = FALSE
                              /\ UNCHANGED result
    /\ UNCHANGED <<csrf_token, session_headers, api_versions, module_version, envVars, callerVars, resolved,
                   callVars, ctx, status, ledger, serverAuth, accepted>>

\* A faulty variant of the status test: the status of the answer is not looked at
PrimingFailed_Never(r) == FALSE

\* response.raise_for_status() raises for the answer to a priming POST
PrimingFailed(r) == r.kind = "http_error"

\* _get_app_store_urls: POST ActionGetAppStoreUrls
GetAppStoreUrls ==
    /\ pc = "L_app"
    /\ \E r \in PrimingResponses :
          /\ log' = Append(log, Req("POST_appstoreurls", attempt, csrf_token, r.kind,
                                    NoDate, FALSE))
          /\ IF PrimingFailed(r)
             THEN LoginReturns(FALSE) /\ UNCHANGED cookies
             ELSE /\ cookies' = IF r.nr2Users = None THEN cookies
                                ELSE [cookies EXCEPT !.nr2Users = r.nr2Users]
                  /\ pc' = "L_rv_site"
                  /\ UNCHANGED <<result, loggedIn>>
    /\ UNCHANGED <<csrf_token, session_headers, api_versions, module_version, envVars, callerVars, resolved,
                   callVars, ctx, status, ledger, serverAuth, versionToken, accepted>>

\* _get_site_properties_for_sync: POST ActionGetSitePropertiesForSync, then
\* self.module_version = self._perform_initial_calls()
GetSitePropertiesForSync ==
    /\ pc = "L_site"
    /\ \E r \in PrimingResponses :
          /\ log' = Append(log, Req("POST_siteproperties", attempt, csrf_token, r.kind,
                                    NoDate, FALSE))
          /\ IF PrimingFailed(r)
             THEN LoginReturns(FALSE) /\ UNCHANGED <<cookies, module_version>>
             ELSE /\ cookies' = IF r.nr2Users = None THEN cookies
                                ELSE [cookies EXCEPT !.nr2Users = r.nr2Users]
                  /\ module_version' = versionToken
                  /\ pc' = "L_rv_login"
                  /\ UNCHANGED <<result, loggedIn>>
    /\ UNCHANGED <<csrf_token, session_headers, api_versions, envVars, callerVars, resolved,
                   callVars, ctx, status, ledger, serverAuth, versionToken, accepted>>

\* A faulty variant of the result test: any answered login counts as accepted
LoginAccepted_AnyAnswer(r) == r.kind # "http_error"

\* raise_for_status() passed, the body holds no "exception" and data.Result is True
LoginAccepted(r) == r.kind = "ok"

\* POST ActionAppLogin, then the rotated token is read from the nr2Users cookie
AppLogin ==
    /\ pc = "L_login"
    /\ \E r \in LoginResponses :
          LET jar == IF r.nr2Users = None THEN cookies
                     ELSE [cookies EXCEPT !.nr2Users = r.nr2Users]
              nr2_users_cookie == jar.nr2Users
              \* what the log keeps of the answer
              answer == IF r.kind = "ok" /\ r.nr2Users = None
                        THEN "ok_without_nr2Users" ELSE r.kind
          IN  /\ log' = Append(log, Req("POST_login", attempt, csrf_token, answer,
                                        NoDate, FALSE))
              /\ cookies' = jar
              /\ serverAuth' = (serverAuth \/ r.kind = "ok")
              /\ IF ~LoginAccepted(r)
                 THEN LoginReturns(FALSE) /\ UNCHANGED <<csrf_token, session_headers>>
                 ELSE IF nr2_users_cookie \in {None, ""}
                           \/ CrfGroup(nr2_users_cookie) = NoMatch
                 THEN LoginReturns(FALSE) /\ UNCHANGED <<csrf_token, session_headers>>
                 ELSE /\ csrf_token' = unquote(CrfGroup(nr2_users_cookie))
                      /\ session_headers' = unquote(CrfGroup(nr2_users_cookie))
                      /\ LoginReturns(TRUE)
    /\ UNCHANGED <<api_versions, module_version, envVars, callerVars, resolved, callVars, ctx, status,
                   ledger, versionToken, accepted>>

-----------------------------------------------------------------------------
(* MTCClient.submit_reimbursement *)

\* if not self.session.cookies.get("osVisitor") or not self.csrf_token
SessionInvalid == ~cookies.osVisitor \/ csrf_token = ""

\* A faulty variant of the mode test: the flag is never seen
IsDryRun_Never == FALSE

\* os.getenv("MODE") == "DRY"
IsDryRun == MODE = "DRY"

\* A faulty variant of the attempts test: one attempt too many
AttemptsRemain_Inclusive(a, n) == a <= n

\* if attempt < max_attempts, after attempt += 1
AttemptsRemain(a, n) == a < n

\* A faulty variant of the loop: the body runs once before the test
LoopEntered_Once(n) == TRUE

\* attempt = 0, then `while attempt < max_attempts` on entry
LoopEntered(n) == 0 < n

\* A faulty variant of the retry: the loop resumes at the claim write
RetryAt_Write == "S_rv_submit"

\* Where the loop goes on after a date shift: `continue`, to the top of the while body
RetryAt == "S_check"

\* A faulty variant of the retry: the record is rebuilt for the new date and
\* loses its invoice
RecordAfterShift_Rebuilt(c) == [c EXCEPT !.invoice_jpeg_base64 = None]

\* The caller's dictionary after a date shift: `current_submission_dt -=
\* timedelta(days=1)` rebinds the local, claim_data is only ever read
RecordAfterShift(c) == c

\* A faulty variant of the success test: an answer without an error message
\* counts as accepted
ClaimSucceeded_Unrejected(r) == ~r.hasErrorMessage

\* if result.get("data", {}).get("Success")
ClaimSucceeded(r) == r.Success

\* The values the messages embed
ClaimParts(c) == <<c.location, c.kwh_charged, c.total_price>>
DuplicateParts(c) == <<c.chargeSessionId, c.location, c.kwh_charged, c.total_price>>
DryRunParts(c) == ClaimParts(c)

\* Entry: the datetime is parsed, attempt = 0, and the while condition is tested.
\* The caller passes the claim and max_attempts the run was started with.
SubmitReimbursement ==
    /\ pc \in {"idle", "done", "new"}
    /\ calls < MaxCalls
    /\ IF claim_data.datetime_type # "str"
       THEN \* fromisoformat raises TypeError; only ValueError is caught there
            /\ pc' = "raised"
            /\ result' = NoResult
            /\ current_submission_dt' = NoDatetime
       ELSE IF ~ValidIso(claim_data.datetime)
       THEN /\ Return(Res(FALSE, "Invalid datetime format", <<>>, 0, claim_data.datetime))
            /\ current_submission_dt' = NoDatetime
       ELSE /\ current_submission_dt' = fromisoformat(claim_data.datetime)
            /\ IF LoopEntered(max_attempts)
               THEN pc' = "S_check" /\ result' = NoResult
               ELSE Return(Res(FALSE, "Failed to submit after date attempts",
                               <<>>, max_attempts, NoIso))
    /\ attempt' = 0
    /\ shifts' = 0
    /\ calls' = calls + 1
    /\ log' = <<>>
    /\ ctx' = "pre"
    /\ status' = ""
    /\ versionToken' = ""
    /\ UNCHANGED <<sessionVars, envVars, callerVars, resolved, claim_data, max_attempts, ledger,
                   serverAuth, loggedIn, accepted>>

\* The session check at the top of an attempt
CheckSession ==
    /\ pc = "S_check"
    /\ IF SessionInvalid
       THEN pc' = "L_meta" /\ ctx' = "pre"
       ELSE pc' = "S_rv_tx" /\ ctx' = ctx
    /\ UNCHANGED <<sessionVars, envVars, callerVars, resolved, callVars, status, result, ledger,
                   serverAuth, versionToken, log, loggedIn, accepted>>

\* POST DataActionGetTransactions, the duplicate scan and the dry-run test
GetTransactions ==
    /\ pc = "S_tx"
    /\ \E r \in TransactionsResponses :
          \* the provider serves the list only to a session it has logged in
          /\ r \in {"ok", "exception_body"} => serverAuth
          /\ LET transactions ==
                     TransactionsInWindow(ledger, now_utc, lookback_period_months)
                 dup == r = "ok" /\ IsDuplicate(transactions, claim_data)
                 \* what the log keeps of the answer: whether the list held the note
                 listed == \E t \in transactions : t.ClaimNote = claim_data.chargeSessionId
                 res == IF r # "ok" THEN r ELSE IF listed THEN "match" ELSE "no_match"
             IN  /\ log' = Append(log, Req("POST_transactions", attempt, csrf_token, res,
                                           NoDate, loggedIn))
                 /\ CASE r = "exception" ->
                           /\ Return(Res(FALSE, "exception", <<"transactions">>, 0, NoIso))
                           /\ UNCHANGED <<ctx, status>>
                      [] r \in {"401", "403"} ->
                           /\ status' = r
                           /\ ctx' = "auth"
                           /\ pc' = "L_meta"
                           /\ UNCHANGED result
                      [] r = "500" ->
                           /\ status' = r
                           /\ FetchFailed(r)
                           /\ UNCHANGED ctx
                      [] r = "exception_body" ->
                           /\ Return(Res(FALSE, "API error in transactions", <<>>, 0, NoIso))
                           /\ UNCHANGED <<ctx, status>>
                      [] r = "ok" ->
                           /\ IF dup
                              THEN Return(Res(TRUE, "Skipping duplicate claim for session",
                                              DuplicateParts(claim_data), 0, NoIso))
                              ELSE IF IsDryRun
                              THEN Return(Res(TRUE, "[DRY RUN] Would submit claim for",
                                              DryRunParts(claim_data), 0, NoIso))
                              ELSE pc' = "S_rv_submit" /\ UNCHANGED result
                           /\ UNCHANGED <<ctx, status>>
    /\ UNCHANGED <<sessionVars, envVars, callerVars, resolved, callVars, ledger, serverAuth, versionToken,
                   loggedIn, accepted>>

\* POST ActionClaim_Create and the handling of its answer
ClaimCreate ==
    /\ pc = "S_claim"
    /\ \E r \in ClaimResponses :
          \* the provider handles the claim only for a session it has logged in
          /\ r.kind = "ok" => serverAuth
          /\ LET date == date_transaction_str(current_submission_dt)
                 id == claim_data.chargeSessionId
                 error_msg_detail == IF r.hasErrorMessage THEN r.ErrorMessage
                                     ELSE UnknownSubmissionError
                 answered == r.kind = "ok" /\ ~r.hasError /\ ~r.hasException
                 success == answered /\ ClaimSucceeded(r)
                 daily == answered /\ ~ClaimSucceeded(r)
                              /\ is_daily_limit_error(error_msg_detail)
                 \* what the log keeps of the answer
                 outcome == CASE r.kind # "ok" -> r.kind
                              [] r.hasError \/ r.hasException -> "api_error"
                              [] r.Success -> "success"
                              [] r.hasErrorMessage /\ Contains(r.ErrorMessage, DailyLimitPhrase)
                                   -> "daily_limit"
                              [] OTHER -> "rejected"
             IN  /\ log' = Append(log, Req("POST_claim", attempt, csrf_token, outcome,
                                           date, loggedIn))
                 /\ ledger' = IF success
                              THEN ledger \cup {[ClaimNote |-> id, date |-> date]}
                              ELSE ledger
                 /\ accepted' = IF success THEN [accepted EXCEPT ![id] = @ + 1]
                                ELSE accepted
                 /\ IF daily
                    THEN /\ attempt' = attempt + 1
                         /\ IF AttemptsRemain(attempt + 1, max_attempts)
                            THEN /\ current_submission_dt' = MinusOneDay(current_submission_dt)
                                 /\ claim_data' = RecordAfterShift(claim_data)
                                 /\ shifts' = shifts + 1
                                 /\ pc' = RetryAt
                                 /\ UNCHANGED result
                            ELSE /\ Return(Res(FALSE, "Failed due to daily limit after attempts",
                                               error_msg_detail, attempt + 1, NoIso))
                                 /\ UNCHANGED <<claim_data, current_submission_dt, shifts>>
                    ELSE /\ UNCHANGED <<claim_data, attempt, current_submission_dt, shifts>>
                         /\ CASE r.kind = "exception" ->
                                   Return(Res(FALSE, "exception", <<"claim">>, 0, NoIso))
                              [] r.kind = "http_error" ->
                                   Return(Res(FALSE, "HTTP error submitting claim", <<>>, 0, NoIso))
                              [] r.kind = "ok" /\ ~answered ->
                                   Return(Res(FALSE, "API error", r.text, 0, NoIso))
                              [] success ->
                                   Return(Res(TRUE, "Successfully submitted claim for",
                                              ClaimParts(claim_data), 0,
                                              isoformat(current_submission_dt)))
                              [] OTHER ->
                                   Return(Res(FALSE, "Failed to submit claim",
                                              error_msg_detail, 0, NoIso))
    /\ UNCHANGED <<sessionVars, envVars, callerVars, resolved, max_attempts, calls, ctx,
                   status, serverAuth, versionToken, loggedIn>>

\* Another session of the same account (the web application, a second run of
\* this program) files the same charging session while this call waits for the
\* provider.
OtherSessionFiles ==
    /\ pc = "S_tx"
    /\ LET t == [ClaimNote |-> claim_data.chargeSessionId, date |-> Today]
       IN  /\ t \notin ledger
           /\ ledger' = ledger \cup {t}
    /\ UNCHANGED <<sessionVars, envVars, callerVars, resolved, callVars, pc, ctx, status, result,
                   serverAuth, versionToken, log, loggedIn, accepted>>

-----------------------------------------------------------------------------

Next ==
    \/ GetApiVersionCached
    \/ GetApiVersionFetch
    \/ GetModuleVersionInfo
    \/ GetAppStoreUrls
    \/ GetSitePropertiesForSync
    \/ AppLogin
    \/ SubmitReimbursement
    \/ CheckSession
    \/ GetTransactions
    \/ ClaimCreate
    \/ OtherSessionFiles

Spec == Init /\ [][Next]_vars

-----------------------------------------------------------------------------
(* submit_to_mtc of main.py: every call constructs a client of its own and  *)
(* submits through it                                                       *)

\* client = MTCClient(): a fresh session, token, cookie jar and version cache,
\* then the construction-time login()
SubmitToMtc ==
    /\ pc \in {"idle", "done"}
    /\ calls < MaxCalls
    /\ csrf_token' = InitialCsrfToken
    /\ session_headers' = None
    /\ cookies' = [osVisit |-> FALSE, osVisitor |-> FALSE, nr2Users |-> None]
    /\ api_versions' = [e \in Endpoints |-> None]
    /\ module_version' = ""
    /\ pc' = "L_meta"
    /\ ctx' = "mtc"
    /\ attempt' = 0
    /\ shifts' = 0
    /\ current_submission_dt' = NoDatetime
    /\ status' = ""
    /\ result' = NoResult
    /\ serverAuth' = FALSE
    /\ versionToken' = ""
    /\ log' = <<>>
    /\ loggedIn' = FALSE
    /\ UNCHANGED <<envVars, callerVars, claim_data, max_attempts, calls, ledger, accepted, resolved>>

NextProcess ==
    \/ Next
    \/ SubmitToMtc

\* The runs the process is checked on: one claim, one attempt per call
InitProcess == Init /\ claim_data.chargeSessionId = "abc123" /\ max_attempts = 1

ProcessSpec == InitProcess /\ [][NextProcess]_vars

-----------------------------------------------------------------------------
(* _get_api_version called on a constructed client by a caller of its own *)

\* client._get_api_version(endpoint), entered while no other call is running
GetApiVersionCall ==
    /\ pc \in {"idle", "done"}
    /\ \E e \in EndpointKeys : endpoint_arg' = e
    /\ pc' = "D_rv"
    /\ log' = <<>>
    /\ UNCHANGED <<sessionVars, envVars, sessions, resolved, callVars, ctx, status, result,
                   ledger, serverAuth, versionToken, loggedIn, accepted>>

NextResolve ==
    \/ Next
    \/ GetApiVersionCall

ResolveSpec == InitProcess /\ [][NextResolve]_vars

-----------------------------------------------------------------------------
(* main of main.py: one client, and submit_reimbursement for every session  *)
(* of the batch that has an invoice                                         *)

\* A session whose invoice could not be fetched or converted
SessionWithoutInvoice ==
    [Claim("inv000", "Sneek", Iso(2024, 8, 29, 600, 0, TRUE, 120))
        EXCEPT !.invoice_jpeg_base64 = None]

\* The records process_charging_sessions hands to the loop
BatchRecords ==
    {c \in ClaimRecords : c.chargeSessionId \in {"abc123", "nul001"}}
    \cup {SessionWithoutInvoice}

\* The batches: up to MaxCalls sessions, in any order
Batches == UNION {[1..n -> BatchRecords] : n \in 1..MaxCalls}

\* A faulty variant of the invoice test: every session passes
HasInvoice_Always(session) == TRUE

\* if not session.get('invoice_jpeg_base64')
HasInvoice(session) == session.invoice_jpeg_base64 \notin {None, ""}

\* max_attempts: int = 3, the default main leaves in place
DefaultMaxAttempts == 3

\* for session in sessions: the next session is taken; one without an invoice
\* is skipped, any other is passed to mtc_client.submit_reimbursement
MainNextSession ==
    /\ pc \in {"idle", "done"}
    /\ sessions # <<>>
    /\ sessions' = Tail(sessions)
    /\ IF HasInvoice(Head(sessions))
       THEN /\ claim_data' = Head(sessions)
            /\ pc' = "new"
       ELSE UNCHANGED <<claim_data, pc>>
    /\ UNCHANGED <<sessionVars, envVars, endpoint_arg, resolved, max_attempts, attempt,
                   current_submission_dt, shifts, calls, ctx, status, result, ledger,
                   serverAuth, versionToken, log, loggedIn, accepted>>

\* success, message = mtc_client.submit_reimbursement(session)
MainSubmit == pc = "new" /\ SubmitReimbursement

\* The steps of the client, submit_reimbursement being entered by the loop only
NextMain ==
    \/ GetApiVersionCached
    \/ GetApiVersionFetch
    \/ GetModuleVersionInfo
    \/ GetAppStoreUrls
    \/ GetSitePropertiesForSync
    \/ AppLogin
    \/ MainSubmit
    \/ CheckSession
    \/ GetTransactions
    \/ ClaimCreate
    \/ OtherSessionFiles
    \/ MainNextSession

InitMain ==
    /\ InitOf({DefaultLookbackPeriod}, NowChoices, Batches)
    /\ claim_data.chargeSessionId = "abc123"
    /\ max_attempts = DefaultMaxAttempts
    /\ MODE = "PROD"

MainSpec == InitMain /\ [][NextMain]_vars

-----------------------------------------------------------------------------
(* The duplicate check under other clocks and lookback periods *)

\* datetime.now(timezone.utc) at the end of a 31-day month after a leap
\* February, at the end of March of a common year, and in mid January
LookbackClocks ==
    { [y |-> 2024, m |-> 8, d |-> 31, min |-> 720],
      [y |-> 2025, m |-> 3, d |-> 31, min |-> 5],
      [y |-> 2025, m |-> 1, d |-> 15, min |-> 1439] }

\* LOOKBACK_PERIOD
LookbackPeriods == 0..MaxLookback

InitLookback ==
    /\ InitOf(LookbackPeriods, LookbackClocks, {<<>>})
    /\ claim_data.chargeSessionId = "abc123"
    /\ max_attempts = 1
    /\ MODE = "PROD"

LookbackSpec == InitLookback /\ [][Next]_vars

-----------------------------------------------------------------------------
(* submit_reimbursement called with a max_attempts of the caller's choosing *)

\* The values below one that a caller can pass for max_attempts
NoAttemptsArgs == {-1, 0}

\* client.submit_reimbursement(claim_data, max_attempts) is about to be called
\* on a constructed client with a record whose timestamp is a string and a
\* max_attempts that allows no attempt
PassMaxAttempts ==
    /\ pc \in {"idle", "done"}
    /\ calls < MaxCalls
    /\ max_attempts' \in NoAttemptsArgs
    /\ claim_data' \in {c \in ClaimRecords : c.datetime_type = "str"}
    /\ pc' = "new"
    /\ UNCHANGED <<sessionVars, envVars, callerVars, resolved, attempt, current_submission_dt,
                   calls, shifts, ctx, status, result, ledger, serverAuth, versionToken,
                   log, loggedIn, accepted>>

NextArg ==
    \/ Next
    \/ PassMaxAttempts

ArgSpec == InitProcess /\ [][NextArg]_vars

-----------------------------------------------------------------------------
(* Properties *)

Writes == {i \in DOMAIN log : log[i].op = "POST_claim"}
Fetches == {i \in DOMAIN log : log[i].op = "POST_transactions"}
DuplicateMessage == "Skipping duplicate claim for session"

\* C1, as stated: whenever a transaction list fetched by the call holds an entry
\* whose note equals the claim's session identifier, the call returns success
\* and has issued no claim write at all.
C1_NoWriteInCall ==
    \A i \in Fetches :
        log[i].res = "match" => pc = "done" /\ result.ok /\ Writes = {}

\* C1, amended: a fetched list that holds the note ends the call at once with
\* the duplicate-skipped success; no claim write is issued in that attempt or
\* after it, and the only writes of the call are those of earlier attempts,
\* each answered with the daily-limit error (none when the first attempt's
\* list holds the note).
C1_DuplicateEndsCall ==
    \A i \in Fetches :
        log[i].res = "match" =>
            /\ i = Len(log)
            /\ pc = "done"
            /\ result.ok
            /\ result.kind = DuplicateMessage
            /\ \A j \in Writes : log[j].att < log[i].att /\ log[j].res = "daily_limit"
            /\ (log[i].att = 0 => Writes = {})

\* C1 witness: the first attempt's list held the note and the call returned
C1_Witness ==
    /\ pc = "done"
    /\ result.ok
    /\ \E i \in Fetches : log[i].res = "match" /\ log[i].att = 0

\* C2: over any sequence of submit calls for the same session identifier the
\* provider accepts at most one claim write for it.
C2_AtMostOneAccepted ==
    \A id \in SessionIds : accepted[id] <= 1

\* C3: a transactions fetch or a claim write is issued only while the session
\* is Authenticated, that is after a login() that completed and returned True.
C3_RequestsOnlyWhenAuthenticated ==
    \A i \in Fetches \cup Writes : log[i].authed

\* C4: at the start of an attempt, a session that lacks a session cookie or
\* still holds the bootstrap token makes submit run login() before any other
\* request; and when that re-login fails the call returns failure with no
\* request after the failed login.
C4_ReloginOnBootstrapToken ==
    /\ [][(pc = "S_check"
           /\ (~cookies.osVisit \/ ~cookies.osVisitor \/ csrf_token = InitialCsrfToken))
          => pc' = "L_meta"]_vars
    /\ [](pc = "done" /\ result.kind = "Authentication required and re-login failed"
          => ~result.ok /\ log # <<>>
             /\ log[Len(log)].op \notin {"POST_transactions", "POST_claim"})

\* The claim's original datetime moved back k days on its own clock
ShiftedBack(k) == [fromisoformat(claim_data.datetime) EXCEPT !.day = @ - k]
WritesBefore(i) == {j \in Writes : j < i}
DailyLimitWrites == {i \in Writes : log[i].res = "daily_limit"}

\* C5: the k-th claim write of a call carries the claim's original date minus
\* (k-1) days, every earlier write of the call having been answered with the
\* daily-limit error; for a datetime with an offset the UTC date written is
\* the original UTC date (k-1) days earlier at the same time of day; the third
\* write of the claim of 2024-03-01T00:30:00.123456+01:00 carries
\* 2024-02-27T23:30:00.123Z; and a third write answered with success makes
\* the call return success.
C5_KthWriteDate ==
    \A i \in Writes :
        LET k == Cardinality(WritesBefore(i))
            written == log[i].date
            original == date_transaction_str(fromisoformat(claim_data.datetime))
        IN  /\ \A j \in WritesBefore(i) : log[j].res = "daily_limit"
            /\ log[i].att = k
            /\ written = date_transaction_str(ShiftedBack(k))
            /\ claim_data.datetime.aware =>
                 /\ Ordinal(written.y, written.m, written.d)
                      = Ordinal(original.y, original.m, original.d) - k
                 /\ written.min = original.min
                 /\ written.ms = original.ms
            /\ (claim_data.chargeSessionId = "mar001" /\ k = 2) =>
                 written = [y |-> 2024, m |-> 2, d |-> 27, min |-> 1410, ms |-> 123, z |-> "Z"]
            /\ (k = 2 /\ log[i].res = "success") =>
                 /\ pc = "done"
                 /\ result.ok
                 /\ result.kind = "Successfully submitted claim for"
                 /\ result.date = isoformat(ShiftedBack(2))

\* C5 witness: max_attempts = 3, two daily-limit answers, then success on the
\* third write
C5_Witness ==
    /\ pc = "done"
    /\ result.ok
    /\ max_attempts = 3
    /\ Cardinality(Writes) = 3
    /\ Cardinality(DailyLimitWrites) = 2
    /\ claim_data.chargeSessionId = "mar001"

\* C6: a call never gets more daily-limit answers than max_attempts; when all
\* n = max_attempts >= 1 writes were answered with the daily limit the call has
\* issued exactly n writes, shifted the date exactly n-1 times, and returned
\* failure with the message that cites the daily-limit error; and that failure
\* is returned in no other case.
C6_DailyLimitExhausted ==
    /\ Cardinality(DailyLimitWrites) <= max_attempts
    /\ (max_attempts >= 1 /\ Cardinality(DailyLimitWrites) = max_attempts) =>
         /\ Writes = DailyLimitWrites
         /\ Cardinality(Writes) = max_attempts
         /\ shifts = max_attempts - 1
         /\ current_submission_dt = ShiftedBack(max_attempts - 1)
         /\ pc = "done"
         /\ ~result.ok
         /\ result.kind = "Failed due to daily limit after attempts"
         /\ result.n = max_attempts
         /\ Contains(result.parts, DailyLimitPhrase)
    /\ (pc = "done" /\ result.kind = "Failed due to daily limit after attempts") =>
         Cardinality(DailyLimitWrites) = max_attempts

\* C6 witness: max_attempts = 2, both writes answered with the daily limit,
\* the date shifted once
C6_Witness ==
    /\ pc = "done"
    /\ max_attempts = 2
    /\ Cardinality(DailyLimitWrites) = 2
    /\ shifts = 1
    /\ ~result.ok

\* C7: a claim write rejected with a message without the daily-limit phrase is
\* the last request of the call: the call has returned failure with that
\* message, and no write, no fetch and no date shift followed it.
C7_OtherRejectionEndsCall ==
    \A i \in Writes :
        log[i].res = "rejected" =>
            /\ i = Len(log)
            /\ pc = "done"
            /\ ~result.ok
            /\ result.kind = "Failed to submit claim"
            /\ ~Contains(result.parts, DailyLimitPhrase)
            /\ attempt = log[i].att
            /\ shifts = log[i].att
            /\ current_submission_dt = ShiftedBack(log[i].att)

\* C7 witness: the first write of a call with max_attempts = 3 is rejected
C7_Witness ==
    /\ pc = "done"
    /\ max_attempts = 3
    /\ \E i \in Writes : log[i].res = "rejected" /\ log[i].att = 0

\* C8: with MODE=DRY no claim write is ever issued and the provider accepts
\* nothing, and a fetched list without the claim's note ends the call with the
\* dry-run success.
C8_DryRunNoWrite ==
    MODE = "DRY" =>
        /\ Writes = {}
        /\ \A id \in SessionIds : accepted[id] = 0
        /\ \A i \in Fetches :
              log[i].res = "no_match" =>
                  /\ i = Len(log)
                  /\ pc = "done"
                  /\ result.ok
                  /\ result.kind = "[DRY RUN] Would submit claim for"

\* C8 witness: a dry-run call whose list did not hold the note has returned
C8_Witness ==
    /\ MODE = "DRY"
    /\ pc = "done"
    /\ result.ok
    /\ \E i \in Fetches : log[i].res = "no_match"

\* C9: the message of the dry-run success contains the claim's literal
\* session identifier.
C9_DryRunMessageHasSessionId ==
    (pc = "done" /\ result.ok /\ result.kind = "[DRY RUN] Would submit claim for")
        => Contains(result.parts, claim_data.chargeSessionId)

\* C10: every claim write is preceded, in its own attempt, by a transactions
\* fetch that succeeded and held no matching note, with nothing between the
\* two but the resolution of the write endpoint's version; so each date-shift
\* retry fetches and scans again before it writes.
C10_FetchBeforeWrite ==
    \A i \in Writes :
        \E j \in Fetches :
            /\ j < i
            /\ log[j].att = log[i].att
            /\ log[j].res = "no_match"
            /\ \A k \in (j + 1)..(i - 1) : log[k].op = "GET_js"

\* C10 witness: a call that wrote twice, the second write after a date shift
C10_Witness ==
    /\ Cardinality(Writes) = 2
    /\ shifts = 1
    /\ \E i \in Writes : log[i].att = 1

\* The login() whose credential POST is the last request has returned
LoginJustReturned == log # <<>> /\ log[Len(log)].op = "POST_login"

\* C14: login() returns False when the provider reports an unsuccessful login
\* and when the login response sets no nr2Users cookie, whatever the jar
\* already holds.
C14_LoginFailsWithoutNewCookie ==
    (LoginJustReturned
     /\ log[Len(log)].res \in {"rejected", "exception_body", "ok_without_nr2Users"})
        => ~loggedIn

\* C15: after a login() that returned True the anti-forgery token differs
\* from the bootstrap constant.
C15_TokenRotatedAfterLogin ==
    loggedIn => csrf_token # InitialCsrfToken

\* C16, as stated: a login() the provider rejects returns False and leaves the
\* token equal to the bootstrap constant.
C16_RejectedLoginLeavesBootstrap ==
    (LoginJustReturned /\ log[Len(log)].res = "rejected")
        => (~loggedIn /\ csrf_token = InitialCsrfToken)

\* C16, amended: a login() the provider rejects (or that fails on the
\* credential POST) returns False and leaves the token as it was sent with
\* that POST, and the token changes only in the last step of a login() that
\* returns True; so a rejected login leaves the bootstrap constant in place
\* only when the token held it before.
C16_FailedLoginKeepsToken ==
    /\ []((LoginJustReturned
           /\ log[Len(log)].res \in {"rejected", "exception_body", "http_error"})
          => (~loggedIn /\ csrf_token = log[Len(log)].csrf))
    /\ [][csrf_token' # csrf_token => (pc = "L_login" /\ loggedIn')]_vars

\* C16 witness: a re-login after an earlier successful login was rejected
C16_Witness ==
    /\ LoginJustReturned
    /\ log[Len(log)].res = "rejected"
    /\ ~loggedIn
    /\ csrf_token = "QOjSV0ck2K5My3x/+yrSZeNUfNA="

\* C17: in every login() run the priming calls and the credential POST carry
\* the bootstrap anti-forgery token in their X-CSRFToken header.
C17_LoginRequestsCarryBootstrapToken ==
    \A i \in DOMAIN log :
        log[i].op \in {"POST_appstoreurls", "POST_siteproperties", "POST_login"}
            => log[i].csrf = InitialCsrfToken

\* C18: when after the initial metadata request a session cookie is absent
\* from the jar or the response holds no versionToken, the enclosing login()
\* fails there: it returns False and the metadata request stays the last
\* request, so no priming call and no credential POST follows it.
C18_NoSessionNoPriming ==
    \A i \in DOMAIN log :
        (log[i].op = "GET_meta" /\ log[i].res \in {"no_cookies", "no_versionToken"}) =>
            /\ i = Len(log)
            /\ ~InLogin
            /\ ~loggedIn
            /\ pc = "done" => ~result.ok

\* C18 witness: a re-login inside submit_reimbursement got session cookies but
\* no versionToken, and the call has returned
C18_Witness ==
    /\ pc = "done"
    /\ log # <<>>
    /\ log[Len(log)].op = "GET_meta"
    /\ log[Len(log)].res = "no_versionToken"

\* The step sends the GET that resolves the endpoint key e
FetchOf(e) ==
    /\ Len(log') = Len(log) + 1
    /\ log'[Len(log')].op = "GET_js"
    /\ log'[Len(log')].key = e

\* The step constructs a new client
NewClientStep == pc \in {"idle", "done"} /\ pc' = "L_meta" /\ ctx' = "mtc"

\* C19, as stated: an endpoint key whose version was resolved once in the
\* process is never fetched again.
C19_ResolvedOncePerProcess ==
    [][\A e \in Endpoints : e \in resolved => ~FetchOf(e)]_vars

\* C19, within one client: while a client holds a version for an endpoint key,
\* no step fetches the script for that key and the cached value stays as it
\* is; only the construction of a new client, which starts with an empty
\* cache, ends that.
C19_ResolvedOncePerClient ==
    [][\A e \in Endpoints :
          api_versions[e] # None =>
              /\ ~FetchOf(e)
              /\ api_versions'[e] = api_versions[e] \/ NewClientStep]_vars

\* C19 witness: a second client's login() is served the login version from
\* that client's cache after the first client had resolved the same key
C19_Witness ==
    /\ ctx = "mtc"
    /\ pc = "L_login"
    /\ calls = 1
    /\ api_versions["login"] # None
    /\ Cardinality({i \in DOMAIN log : log[i].op = "GET_js" /\ log[i].key = "login"}) = 1

\* The log entries of script fetches whose body did not match the pattern
NoMatchFetches ==
    {i \in DOMAIN log : log[i].op = "GET_js" /\ log[i].res = "no_match"}

\* The state after a script fetch without a match: it is the last request of
\* the login() or submit_reimbursement call it ran in, that call has failed,
\* and the cache holds no version for the endpoint
NoMatchRaised ==
    \A i \in NoMatchFetches :
        /\ i = Len(log)
        /\ api_versions[log[i].key] = None
        /\ pc \in {"idle", "new", "done"}
        /\ log[i].key \in {"appstoreurls", "login"} => ~loggedIn
        /\ pc = "done" => /\ ~result.ok
                          /\ log[i].key \in {"transactions", "submit"} =>
                                 /\ result.kind = "exception"
                                 /\ result.parts = <<"Could not find API version">>

\* The step fetches a script whose body does not match the pattern
NoMatchStep ==
    /\ Len(log') = Len(log) + 1
    /\ log'[Len(log')].op = "GET_js"
    /\ log'[Len(log')].res = "no_match"

\* C20: a _get_api_version call whose fetched script does not match the
\* endpoint's pattern raises (login() returns False, submit_reimbursement
\* returns (False, "Could not find API version ...") and no further request
\* is made), and the step leaves the version cache as it was: no version is
\* stored for that endpoint.
C20_NoMatchRaisesAndCachesNothing ==
    /\ []NoMatchRaised
    /\ [][NoMatchStep => api_versions' = api_versions]_vars

\* C20 witness: submit_reimbursement fetched the script of the submit endpoint,
\* it did not match, and the call returned the failure
C20_Witness ==
    /\ pc = "done"
    /\ NoMatchFetches # {}
    /\ log[Len(log)].key = "submit"
    /\ result.parts = <<"Could not find API version">>
    /\ api_versions["transactions"] # None

\* C23: a failed submit for one session does not stop the batch: main never
\* stops on a submit while sessions with an invoice are still waiting.
C23_BatchContinuesPastFailure ==
    pc = "raised" => \A i \in DOMAIN sessions : ~HasInvoice(sessions[i])

\* The claim writes answered with the daily-limit message in data.ErrorMessage
\* while attempts remained
ShiftingWrites ==
    {i \in Writes : /\ log[i].res = "daily_limit"
                    /\ AttemptsRemain(log[i].att + 1, max_attempts)}

\* C24, as stated: a claim write whose answer carries the daily-limit phrase in
\* any of its fields never ends the call while attempts remain.
C24_AnyFieldShifts ==
    (/\ pc = "done"
     /\ log # <<>>
     /\ log[Len(log)].op = "POST_claim"
     /\ Contains(result.parts, DailyLimitPhrase))
        => ~AttemptsRemain(log[Len(log)].att + 1, max_attempts)

\* C24, amended: a claim write answered without an error or exception key,
\* with Success false and the daily-limit phrase in data.ErrorMessage, while
\* attempts remain, moves the date back one day and is followed by the next
\* attempt, which starts again before the duplicate check; an answer with an
\* error or exception key ends the call with the API error, whatever its text.
C24_ErrorMessageShifts ==
    /\ shifts = Cardinality(ShiftingWrites)
    /\ shifts > 0 => current_submission_dt = ShiftedBack(shifts)
    /\ \A i \in ShiftingWrites :
          /\ attempt > log[i].att
          /\ i = Len(log) => pc \in {"S_check", "S_rv_tx", "S_tx", "L_meta"}
          /\ i < Len(log) => /\ log[i + 1].op # "POST_claim"
                             /\ log[i + 1].att = log[i].att + 1
    /\ \A i \in Writes :
          log[i].res = "api_error" =>
              /\ i = Len(log)
              /\ pc = "done"
              /\ ~result.ok
              /\ result.kind = "API error"

\* C24 witness: after one shift, the next write was answered with the
\* daily-limit phrase under the exception key while attempts remained, and the
\* call ended
C24_Witness ==
    /\ pc = "done"
    /\ shifts = 1
    /\ result.kind = "API error"
    /\ Contains(result.parts, DailyLimitPhrase)
    /\ AttemptsRemain(attempt + 1, max_attempts)

\* Between the requests lo and hi only scripts were fetched, each with a version
OnlyVersionFetches(lo, hi) ==
    \A j \in (lo + 1)..(hi - 1) :
        log[j].op = "GET_js" /\ log[j].res \notin {"http_error", "no_match"}

\* The request at i is the request `op`, and it succeeded
Succeeded(i, op) == log[i].op = op /\ log[i].res = "ok"

\* The request at i is a request of login() before the credential POST, and it
\* failed
FailedBeforeCredentials(i) ==
    \/ log[i].op \in {"GET_meta", "POST_appstoreurls", "POST_siteproperties"}
          /\ log[i].res # "ok"
    \/ log[i].op = "GET_js" /\ log[i].key \in {"appstoreurls", "login"}
          /\ log[i].res \in {"http_error", "no_match"}

\* C25: login() sends the metadata GET, then the two priming POSTs, then the
\* credential POST, with nothing but version resolutions in between; each is
\* sent only after the one before it succeeded, and when one of them or a
\* version resolution fails, login() returns False there and the credential
\* POST is not sent.
C25_LoginOrder ==
    \A i \in DOMAIN log :
        /\ log[i].op = "POST_appstoreurls" =>
              \E m \in 1..(i - 1) : Succeeded(m, "GET_meta") /\ OnlyVersionFetches(m, i)
        /\ log[i].op = "POST_siteproperties" =>
              \E a \in 1..(i - 1) :
                  Succeeded(a, "POST_appstoreurls") /\ OnlyVersionFetches(a, i)
        /\ log[i].op = "POST_login" =>
              \E b \in 1..(i - 1) :
                  Succeeded(b, "POST_siteproperties") /\ OnlyVersionFetches(b, i)
        /\ FailedBeforeCredentials(i) =>
              /\ i = Len(log)
              /\ ~InLogin
              /\ ~loggedIn

\* C25 witness: a re-login inside submit_reimbursement whose second priming
\* call failed; the call has returned and no credentials were sent
C25_Witness ==
    /\ pc = "done"
    /\ log # <<>>
    /\ log[Len(log)].op = "POST_siteproperties"
    /\ log[Len(log)].res = "http_error"
    /\ \A i \in DOMAIN log : log[i].op # "POST_login"

\* The token each nr2Users cookie value carries in its crf field, percent
\* escapes resolved
TokenCarriedBy ==
    [c \in {Nr2Bootstrap, Nr2Rotated, Nr2EmptyCrf} |->
        CASE c = Nr2Bootstrap -> "T6C+9iB49TLra4jEsMeSckDMNhQ="
          [] c = Nr2Rotated   -> "QOjSV0ck2K5My3x/+yrSZeNUfNA="
          [] c = Nr2EmptyCrf  -> ""]

\* C26: from a login() that returned True until the next login() changes the
\* session, the default X-CSRFToken header of the session equals
\* self.csrf_token, and both are the URL-decoded crf value of the nr2Users
\* cookie in the jar.
C26_HeaderIsDecodedToken ==
    loggedIn =>
        /\ session_headers = csrf_token
        /\ cookies.nr2Users \in DOMAIN TokenCarriedBy
        /\ csrf_token = TokenCarriedBy[cookies.nr2Users]

\* C26 witness: a later state of a logged-in session, at the claim write, with
\* the decoded rotated token in the header
C26_Witness ==
    /\ loggedIn
    /\ pc = "S_claim"
    /\ cookies.nr2Users = Nr2Rotated
    /\ session_headers = "QOjSV0ck2K5My3x/+yrSZeNUfNA="

\* The client has been constructed and no call has been made on it yet
Constructed == pc = "idle" /\ calls = 0

\* C27: for a constructed client, a non-empty module version, a non-empty
\* anti-forgery token and an osVisitor cookie together imply that the login()
\* of the constructor returned True.
C27_AttributesImplyLogin ==
    (Constructed /\ module_version # "" /\ csrf_token # "" /\ cookies.osVisitor)
        => loggedIn

DryRunMessage == "[DRY RUN] Would submit claim for"

\* C28: in dry-run mode submit_reimbursement still fetches the transaction
\* list; the dry-run success is returned only after a fetched list that does
\* not hold the claim's note, and a list that holds it yields the
\* duplicate-skipped success instead.
C28_DryRunAfterDuplicateCheck ==
    MODE = "DRY" =>
        /\ (pc = "done" /\ result.kind = DryRunMessage) =>
               /\ log # <<>>
               /\ log[Len(log)].op = "POST_transactions"
               /\ log[Len(log)].res = "no_match"
        /\ \A i \in Fetches :
               log[i].res = "match" =>
                   pc = "done" /\ result.ok /\ result.kind = DuplicateMessage

\* C28 witness: a dry-run call that found the note in the list and returned
\* the duplicate-skipped success
C28_Witness ==
    /\ MODE = "DRY"
    /\ pc = "done"
    /\ result.kind = DuplicateMessage
    /\ log[Len(log)].op = "POST_transactions"
    /\ log[Len(log)].res = "match"

\* C29: submit_reimbursement returns the duplicate-skipped result exactly when
\* the fetched transaction list has an entry whose note equals the claim's
\* session identifier: a list with the note always ends the call with that
\* result, and the result is never returned after a list whose notes are
\* missing or differ from the identifier.
C29_SkipIffExactNote ==
    /\ \A i \in Fetches :
          log[i].res = "match" => pc = "done" /\ result.kind = DuplicateMessage
    /\ (pc = "done" /\ result.kind = DuplicateMessage) =>
          /\ log # <<>>
          /\ log[Len(log)].op = "POST_transactions"
          /\ log[Len(log)].res = "match"
          /\ \E t \in ledger : t.ClaimNote = claim_data.chargeSessionId
          /\ result.parts[1] = claim_data.chargeSessionId

\* C29 witness: the list held an entry without a note and one whose note
\* differs from the identifier "abc123" in case only; the call went on to the
\* claim write and returned without the duplicate-skipped result
C29_Witness ==
    /\ pc = "done"
    /\ claim_data.chargeSessionId = "abc123"
    /\ \E t \in ledger : t.ClaimNote = None
    /\ \E t \in ledger : t.ClaimNote = "ABC123"
    /\ \E i \in Fetches : log[i].res = "no_match"
    /\ Writes # {}
    /\ result.kind # DuplicateMessage

Min(a, b) == IF a <= b THEN a ELSE b

\* The date N calendar months before a date, the day clamped to the length of
\* the month reached, as an ordinal
MonthsBefore(date, N) ==
    LET t == date.y * 12 + (date.m - 1) - N
        y == t \div 12
        m == (t % 12) + 1
    IN  Ordinal(y, m, Min(date.d, DaysInMonth(y, m)))

\* The transactions that lie between midnight of the date N months before now
\* and now
InExpectedWindow(N) ==
    {t \in ledger :
        /\ Ordinal(t.date.y, t.date.m, t.date.d) >= MonthsBefore(now_utc, N)
        /\ Ordinal(t.date.y, t.date.m, t.date.d) <= Ordinal(now_utc.y, now_utc.m, now_utc.d)}

\* C30: for the current date and the lookback length N >= 0 in force, the
\* window of the duplicate check starts at midnight of the date N calendar
\* months before today, its day clamped to the last day of that month, and
\* ends now; the start is never later than the end, and the list a fetch
\* scans is the list of that window.
C30_LookbackWindow ==
    LET start == start_datetime_filter_obj(now_utc, lookback_period_months)
    IN  /\ start = MonthsBefore(now_utc, lookback_period_months)
        /\ start * 1440 <= Ordinal(now_utc.y, now_utc.m, now_utc.d) * 1440 + now_utc.min
        /\ (log # <<>> /\ log[Len(log)].op = "POST_transactions"
               /\ log[Len(log)].res \in {"match", "no_match"}) =>
              (log[Len(log)].res = "match" <=>
                  \E t \in InExpectedWindow(lookback_period_months) :
                      t.ClaimNote = claim_data.chargeSessionId)

\* C30 witness: on 31 March 2025 with a lookback of 7 months the window
\* starts on 31 August 2024, and a fetch found the claim filed on that day
C30_Witness ==
    /\ now_utc.y = 2025 /\ now_utc.m = 3 /\ now_utc.d = 31
    /\ lookback_period_months = 7
    /\ pc = "done"
    /\ log[Len(log)].op = "POST_transactions"
    /\ log[Len(log)].res = "match"

\* The three situations in which the call has something to report as done:
\* the last request of the call is a transactions fetch whose list held the
\* note, or one that did not while MODE is DRY, or a claim write the provider
\* answered with Success
FoundDuplicate ==
    /\ log # <<>>
    /\ log[Len(log)].op = "POST_transactions"
    /\ log[Len(log)].res = "match"

DryRunReached ==
    /\ log # <<>>
    /\ log[Len(log)].op = "POST_transactions"
    /\ log[Len(log)].res = "no_match"
    /\ MODE = "DRY"

WriteAccepted ==
    /\ log # <<>>
    /\ log[Len(log)].op = "POST_claim"
    /\ log[Len(log)].res = "success"

\* C31: submit_reimbursement returns success in exactly three situations: the
\* duplicate scan found the note (and the message is the duplicate message),
\* MODE is DRY and the scan found none (the dry-run message), or the provider
\* answered the claim write with Success (the success message); every other
\* return is a failure.
C31_SuccessOnlyThreeWays ==
    pc = "done" =>
        /\ result.ok <=> (FoundDuplicate \/ DryRunReached \/ WriteAccepted)
        /\ result.ok =>
              /\ result.kind = "Skipping duplicate claim for session" <=> FoundDuplicate
              /\ result.kind = "[DRY RUN] Would submit claim for" <=> DryRunReached
              /\ result.kind = "Successfully submitted claim for" <=> WriteAccepted

\* A call that returns success for a duplicate it found on its second attempt,
\* after a daily-limit answer moved the date
C31_Witness ==
    /\ pc = "done"
    /\ result.ok
    /\ FoundDuplicate
    /\ shifts = 1
    /\ \E i \in Writes : log[i].res = "daily_limit"

\* Answers to the transactions fetch that leave the duplicate check undone: a
\* status that is not 2xx, or a body with the key "exception"
FailedFetches ==
    {i \in Fetches : log[i].res \in {"401", "403", "500", "exception_body"}}

\* C32 as stated: a call in which a transactions fetch failed holds no claim
\* write at all.
C32_FailedFetchNoWriteInCall ==
    FailedFetches # {} => Writes = {}

\* C32: a failed transactions fetch (non-2xx status, or a body carrying an
\* exception) is the last fetch of the call and is followed by no claim write,
\* in its attempt or after it; the call returns failure.  The claim writes of
\* the call are those of earlier attempts, each answered with the daily-limit
\* error, and there is none when the first attempt's fetch fails.
C32_FailedFetchEndsCall ==
    \A i \in FailedFetches :
        /\ \A j \in DOMAIN log :
              j > i => log[j].op \notin {"POST_transactions", "POST_claim"}
        /\ \A j \in Writes :
              j < i /\ log[j].att < log[i].att /\ log[j].res = "daily_limit"
        /\ log[i].att = 0 => Writes = {}
        /\ pc = "done" \/ (InLogin /\ ctx = "auth" /\ log[i].res \in {"401", "403"})
        /\ pc = "done" =>
              /\ ~result.ok
              /\ result.kind \in {"Failed to fetch transactions: HTTP",
                                  "Re-login failed after transaction fetch error.",
                                  "API error in transactions"}

\* A call whose first write was answered with the daily-limit error and whose
\* second attempt's fetch was answered with a body carrying an exception
C32_Witness ==
    /\ pc = "done"
    /\ ~result.ok
    /\ \E i \in FailedFetches :
          /\ log[i].res = "exception_body"
          /\ log[i].att = 1
          /\ \E j \in Writes : j < i

\* Transactions fetches answered with HTTP 401 or 403
RejectedFetches == {i \in Fetches : log[i].res \in {"401", "403"}}

\* After a fetch answered with 401 or 403 the call runs login() once, sends no
\* further fetch and no claim write, and returns failure whether login()
\* returned True ("Failed to fetch transactions: HTTP <status>") or False
\* ("Re-login failed after transaction fetch error.")
ReloginOnceThenFailure ==
    \A i \in RejectedFetches :
        /\ \A j \in DOMAIN log :
              j > i => log[j].op \notin {"POST_transactions", "POST_claim"}
        /\ Cardinality({j \in DOMAIN log : j > i /\ log[j].op = "GET_meta"}) <= 1
        /\ pc = "done" \/ (InLogin /\ ctx = "auth")
        /\ pc = "done" =>
              /\ Cardinality({j \in DOMAIN log : j > i /\ log[j].op = "GET_meta"}) = 1
              /\ ~result.ok
              /\ result.kind = IF loggedIn
                               THEN "Failed to fetch transactions: HTTP"
                               ELSE "Re-login failed after transaction fetch error."
              /\ loggedIn => result.parts = <<log[i].res>>

\* C33: a transactions fetch answered with 401 or 403 is followed by one
\* login() and a failure return, with no further fetch and no claim write; and
\* when that login() returned True the credential request was answered with a
\* new nr2Users cookie whose token, neither empty nor the bootstrap constant,
\* is the one the session holds when the call returns.
C33_ReloginLeavesRotatedToken ==
    /\ ReloginOnceThenFailure
    /\ (pc = "done" /\ RejectedFetches # {} /\ loggedIn) =>
          /\ log[Len(log)].op = "POST_login"
          /\ log[Len(log)].res = "ok"
          /\ csrf_token \notin {"", InitialCsrfToken}
          /\ session_headers = csrf_token

\* A call that returned failure after a fetch answered with 401 and a login()
\* that returned True
C33_Witness ==
    /\ pc = "done"
    /\ loggedIn
    /\ ~result.ok
    /\ \E i \in RejectedFetches : log[i].res = "401"
    /\ log[Len(log)].op = "POST_login"

\* C34: after a login() that returned True the anti-forgery token is not
\* empty, the session check at the top of an attempt finds the session valid,
\* and a call entered in that state does not begin with a login().
C34_LoginSuccessTokenNonEmpty ==
    loggedIn =>
        /\ csrf_token # ""
        /\ ~SessionInvalid
        /\ ~(InLogin /\ ctx = "pre" /\ log = <<>>)

\* A call on a client whose login() returned True that begins with a login():
\* the token that login() installed is empty
C34_Witness ==
    /\ loggedIn
    /\ calls > 0
    /\ pc = "L_meta"
    /\ ctx = "pre"
    /\ log = <<>>
    /\ csrf_token = ""
    /\ cookies.nr2Users = Nr2EmptyCrf

\* The step that enters submit_reimbursement with a max_attempts below one
NoAttemptsCall == max_attempts <= 0 /\ calls' = calls + 1

BadTimestamp ==
    /\ claim_data.datetime_type = "str"
    /\ ~ValidDate(claim_data.datetime.y, claim_data.datetime.m, claim_data.datetime.d)

\* C36: submit_reimbursement called with a timestamp string that is not a
\* valid ISO-8601 datetime returns (False, "Invalid datetime format: <text>")
\* without sending any request, and leaves cookies, anti-forgery token,
\* header, version cache and module version as they were.
C36_InvalidTimestampNoRequest ==
    /\ [][(BadTimestamp /\ calls' = calls + 1) =>
            /\ pc' = "done"
            /\ ~result'.ok
            /\ result'.kind = "Invalid datetime format"
            /\ result'.date = claim_data.datetime
            /\ log' = <<>>
            /\ UNCHANGED <<sessionVars, ledger, serverAuth, loggedIn, accepted>>]_vars
    /\ []((BadTimestamp /\ calls > 0) =>
            /\ pc = "done"
            /\ log = <<>>
            /\ ~result.ok)

\* The second call for the record dated 30 February has returned, on a client
\* whose login had succeeded
C36_Witness ==
    /\ pc = "done"
    /\ BadTimestamp
    /\ calls = 2
    /\ loggedIn
    /\ csrf_token = "QOjSV0ck2K5My3x/+yrSZeNUfNA="
    /\ result.kind = "Invalid datetime format"

\* C37: login() never raises: no step taken inside login() ends in a raised
\* exception; login() returns True only after the credential request was
\* accepted, and every failed request, failed version resolution and missing
\* session value makes it return False to the place it was called from.  The
\* construction of a client therefore always completes, whether its login()
\* succeeded or not.
C37_LoginNeverRaises ==
    /\ [][InLogin =>
            /\ pc' # "raised"
            /\ InLogin' \/ pc' = (CASE ctx = "init" -> "idle"
                                   [] ctx = "mtc"  -> "new"
                                   [] ctx = "pre"  -> IF loggedIn' THEN "S_rv_tx" ELSE "done"
                                   [] ctx = "auth" -> "done")
            /\ (~InLogin' /\ loggedIn') =>
                  /\ log'[Len(log')].op = "POST_login"
                  /\ log'[Len(log')].res \in {"ok", "ok_without_nr2Users"}]_vars
    /\ [](calls = 0 => pc # "raised")
    /\ <>Constructed

\* A constructed client whose login() returned False because the version of an
\* endpoint could not be resolved
C37_Witness ==
    /\ Constructed
    /\ ~loggedIn
    /\ log # <<>>
    /\ log[Len(log)].op = "GET_js"
    /\ log[Len(log)].res = "no_match"

\* The loop of main takes a session whose invoice image is missing
TakesSessionWithoutInvoice ==
    /\ sessions # <<>>
    /\ sessions' = Tail(sessions)
    /\ Head(sessions).invoice_jpeg_base64 \in {None, ""}

\* C38: in the loop of main a session without an invoice image is skipped:
\* taking it starts no call of submit_reimbursement, sends nothing and leaves
\* the client as it was; the record submit_reimbursement is called with always
\* has an invoice image; and whenever no call is running and sessions remain,
\* the loop can take the next one.
C38_NoInvoiceNoSubmit ==
    /\ [][TakesSessionWithoutInvoice =>
            /\ pc' = pc
            /\ calls' = calls
            /\ UNCHANGED <<claim_data, log, result, sessionVars, ledger, accepted>>]_vars
    /\ [][calls' = calls + 1 => claim_data.invoice_jpeg_base64 \notin {None, ""}]_vars
    /\ [](claim_data.invoice_jpeg_base64 \notin {None, ""})
    /\ []((pc \in {"idle", "done"} /\ sessions # <<>>) => ENABLED MainNextSession)

\* The batch is exhausted and submit_reimbursement was never called: every
\* session of the batch lacked its invoice and was skipped
C38_Witness ==
    /\ sessions = <<>>
    /\ pc = "idle"
    /\ calls = 0
    /\ loggedIn

\* The fields of a charging-session record other than its timestamp
OtherFields(c) ==
    <<c.chargeSessionId, c.location, c.kwh_charged, c.total_price, c.currency,
      c.invoice_jpeg_base64>>

\* C22: no step of submit_reimbursement, on any path, changes a field of the
\* caller's record other than the timestamp: the session identifier, the
\* location, the energy, the price, the currency and the invoice image stay
\* as the caller passed them.
C22_OtherFieldsUnchanged ==
    [][OtherFields(claim_data') = OtherFields(claim_data)]_vars

\* C22 witness: a call that shifted the date for a retry and then returned a
\* failure, the record still holding its invoice
C22_Witness ==
    /\ pc = "done"
    /\ shifts >= 1
    /\ ~result.ok
    /\ claim_data \in ClaimRecords

\* A direct _get_api_version call with a key that is not in API_PATTERNS is
\* being handled
UnknownKeyCall == pc = "D_rv" /\ endpoint_arg \notin Endpoints

\* C21: _get_api_version called with a key that is not in the endpoint table
\* raises (KeyError, out of the call), sends no request and leaves the
\* version cache as it was.
C21_UnknownKeyRaises ==
    /\ [][UnknownKeyCall => /\ pc' = "raised"
                            /\ log' = log
                            /\ api_versions' = api_versions]_vars
    /\ [](endpoint_arg \notin Endpoints \cup {None} =>
             /\ log = <<>>
             /\ pc \in {"D_rv", "raised"})

\* C21 witness: the call with the unknown key has raised on a client whose
\* cache holds versions
C21_Witness ==
    /\ pc = "raised"
    /\ endpoint_arg = "logout"
    /\ api_versions["login"] # None
    /\ api_versions["transactions"] # None

NetworkFailures == {"exception", "http_error", "401", "403", "500"}

\* C13: a timeout or a non-2xx answer to a request of submit_reimbursement is
\* followed by at most one more request of the same kind in that attempt and
\* by no date shift and no further attempt; the attempt counter moves on only
\* after a claim write answered with the daily-limit error.
C13_NetworkFailureNoShift ==
    /\ \A i \in DOMAIN log :
          log[i].att = Cardinality({j \in DailyLimitWrites : j < i})
    /\ shifts <= Cardinality(DailyLimitWrites)
    /\ pc # "raised" => attempt = Cardinality(DailyLimitWrites)
    /\ \A i \in DOMAIN log :
          (calls > 0 /\ log[i].res \in NetworkFailures) =>
              /\ Cardinality({j \in DOMAIN log : j > i /\ log[j].op = log[i].op
                                                 /\ log[j].att = log[i].att}) <= 1
              /\ \A j \in DOMAIN log : j > i => log[j].att = log[i].att
              /\ attempt = log[i].att
              /\ shifts = log[i].att
              /\ current_submission_dt = ShiftedBack(log[i].att)

\* C13 witness: in a call with max_attempts = 3 the second attempt's fetch is
\* answered with HTTP 500 and the call has returned
C13_Witness ==
    /\ pc = "done"
    /\ max_attempts = 3
    /\ ~result.ok
    /\ \E i \in Fetches : log[i].res = "500" /\ log[i].att = 1

\* C12: no failure inside submit_reimbursement reaches the caller as an
\* exception: every call returns a (success, message) pair.
C12_SubmitNeverRaises == pc # "raised"

-----------------------------------------------------------------------------
(* Progress: the program is sequential and every request it sends is answered *)
(* (with a response or with an exception), so a step that is possible is     *)
(* eventually taken.                                                         *)

\* The runs progress is checked on: one claim, every mode and max_attempts
InitProgress == Init /\ claim_data.chargeSessionId = "mar001"

FairSpec == InitProgress /\ [][Next]_vars /\ WF_vars(Next)

InSubmit == pc \in {"S_check", "S_rv_tx", "S_tx", "S_rv_submit", "S_claim"}
                \/ (InLogin /\ ctx \in {"pre", "auth"})

\* C11: a call of submit_reimbursement never issues more claim writes than
\* max_attempts, and once entered it always returns, whatever the provider
\* answers.
C11_TerminatesWithinMaxAttempts ==
    /\ [](Cardinality(Writes) <= max_attempts)
    /\ [](attempt <= max_attempts)
    /\ InSubmit ~> pc = "done"

\* C11 witness: a call with the default max_attempts = 3 has returned after
\* its third write
C11_Witness ==
    /\ pc = "done"
    /\ max_attempts = 3
    /\ Cardinality(Writes) = 3

====
